---- MODULE Spec2Model ----
(* Model of main.py: the DCGAN script (network construction, compilation,   *)
(* the shuffle/batch/prefetch input pipeline, and train_dcgan with its      *)
(* per-epoch rendering).  Tensors are abstracted to sequences of sample     *)
(* identities; the numerical content of a training step is not modelled,    *)
(* only which call is made, in which order, with which samples and labels.  *)
EXTENDS Integers, Sequences, FiniteSets, TLC

(* ------------------------------------------------------------------ *)
(* Bounds of the model                                                  *)
(* ------------------------------------------------------------------ *)
MaxSamples == 4      \* training-set sizes N range over 0..MaxSamples
MaxBatchSize == 2    \* batch_size ranges over 1..MaxBatchSize
MaxEpochs == 2       \* epochs ranges over 0..MaxEpochs
MaxNoise == 2        \* distinct values a noise vector can take
ShuffleBuffer == 2   \* shuffle buffer size (1000 in the script, scaled down)

(* ------------------------------------------------------------------ *)
(* Network construction                                                 *)
(* ------------------------------------------------------------------ *)
Layer(kind, activation) == [kind |-> kind, activation |-> activation]

\* main.py 77-84: the layer list of the generator
GeneratorLayers ==
  << Layer("Dense", "none"),
     Layer("Reshape", "none"),
     Layer("BatchNormalization", "none"),
     Layer("Conv2DTranspose", "selu"),
     Layer("BatchNormalization", "none"),
     Layer("Conv2DTranspose", "tanh") >>

\* main.py 101-110: the layer list of the discriminator
DiscriminatorLayers ==
  << Layer("Conv2D", "none"),
     Layer("LeakyReLU", "leaky_relu"),
     Layer("Dropout", "none"),
     Layer("Conv2D", "none"),
     Layer("LeakyReLU", "leaky_relu"),
     Layer("Dropout", "none"),
     Layer("Flatten", "none"),
     Layer("Dense", "sigmoid") >>

(* ------------------------------------------------------------------ *)
(* Pure helpers                                                         *)
(* ------------------------------------------------------------------ *)
\* [[v]] * n : a label column of n copies of v
Repeat(v, n) == [i \in 1..n |-> v]

\* labels with the two halves exchanged
LabelsY1_swapped(bs) == Repeat(1, bs) \o Repeat(0, bs)

\* main.py 152: y1 = [[0.]] * batch_size + [[1.]] * batch_size
LabelsY1(bs) == Repeat(0, bs) \o Repeat(1, bs)

\* main.py 155: y2 = [[1.]] * batch_size
LabelsY2(bs) == Repeat(1, bs)

\* main.py 150: generator(noise), one generated image per noise vector
Generate(noise) == [i \in 1..Len(noise) |-> [src |-> "fake", id |-> noise[i]]]

\* a batch of real samples as image tensors
RealImages(batch) == [i \in 1..Len(batch) |-> [src |-> "real", id |-> batch[i]]]

\* main.py 151: tf.concat([generated_images, X_batch], axis=0)
ConcatFakeReal(generated_images, X_batch) == generated_images \o X_batch

\* the 0-based loop variable handed on as it is
RenderEpoch_zero_based(epoch) == epoch

\* main.py 159, 161: the epoch number handed to generate_and_save_images
RenderEpoch(epoch) == epoch + 1

\* main.py 176: 'image_at_epoch_{:04d}.png'.format(epoch), as the digit
\* string of the zero-padded decimal number (at least 4 digits)
RECURSIVE Digits(_)
Digits(n) == IF n < 10 THEN <<n>> ELSE Digits(n \div 10) \o <<n % 10>>

Pad4(ds) == IF Len(ds) >= 4 THEN ds ELSE Repeat(0, 4 - Len(ds)) \o ds

FileName(epoch) == <<"image_at_epoch_">> \o Pad4(Digits(epoch)) \o <<".png">>

(* ------------------------------------------------------------------ *)
(* Input pipeline: from_tensor_slices -> shuffle -> batch -> prefetch    *)
(* ------------------------------------------------------------------ *)
\* a fresh iterator over the dataset of n samples (ids 1..n, in order)
NewIterator(n) == [input |-> [i \in 1..n |-> i], buf |-> {}, ended |-> FALSE]

Min(a, b) == IF a < b THEN a ELSE b

\* shuffle(buffer_size): top the buffer up from the input
Fill(it) ==
  LET k == Min(ShuffleBuffer - Cardinality(it.buf), Len(it.input))
  IN [it EXCEPT !.buf = it.buf \cup {it.input[i] : i \in 1..k},
                !.input = SubSeq(it.input, k + 1, Len(it.input))]

\* shuffle: all ways of drawing k elements; each result is <<drawn, it'>>.
\* A draw fills the buffer, then removes a uniformly chosen element of it;
\* with an empty buffer the stream has ended and fewer than k are drawn.
RECURSIVE ShuffleDraw(_, _)
ShuffleDraw(it, k) ==
  LET f == Fill(it)
  IN IF k = 0 THEN {<<<<>>, it>>}
     ELSE IF f.buf = {} THEN {<<<<>>, f>>}
     ELSE UNION { { <<<<x>> \o r[1], r[2]>> :
                      r \in ShuffleDraw([f EXCEPT !.buf = f.buf \ {x}], k - 1) } :
                  x \in f.buf }

\* batch without drop_remainder: a short final batch is delivered
BatchNext_keep_remainder(it, bs) ==
  { IF Len(r[1]) > 0 THEN r
    ELSE <<<<>>, [r[2] EXCEPT !.ended = TRUE]>> : r \in ShuffleDraw(it, bs) }

\* batch(batch_size, drop_remainder=True): the results of one get-next,
\* <<batch, it'>>; a short final batch is dropped and the stream ends.
BatchNext(it, bs) ==
  { IF Len(r[1]) = bs THEN r
    ELSE <<<<>>, [r[2] EXCEPT !.ended = TRUE]>> : r \in ShuffleDraw(it, bs) }

(* ------------------------------------------------------------------ *)
(* State                                                                *)
(* ------------------------------------------------------------------ *)
VARIABLES
  pc,                \* position in the script / in train_dcgan
  generator,         \* layer list of the generator (<<>> before it is built)
  discriminator,     \* layer list of the discriminator
  trainable,         \* discriminator.trainable
  compiled,          \* set of models that have been compiled
  n_samples,         \* size of the training set
  batch_size,        \* batch_size argument
  epochs,            \* epochs argument
  epoch,             \* loop variable of train_dcgan (-1: unbound)
  iter,              \* iterator of the current "for X_batch in dataset"
  prefetched,        \* prefetch(1) buffer: at most one batch
  X_batch,           \* current batch of real samples
  noise,             \* current noise batch
  X_fake_and_real,   \* input of the discriminator step
  y1,                \* labels of the discriminator step
  y2,                \* labels of the generator step
  d_args,            \* arguments of the last discriminator.train_on_batch
  g_args,            \* arguments of the last gan.train_on_batch
  epoch_batches,     \* batches yielded to the loop body in this epoch
  trace,             \* calls made so far: train steps and renders
  files              \* files written by plt.savefig

vars == << pc, generator, discriminator, trainable, compiled, n_samples,
           batch_size, epochs, epoch, iter, prefetched, X_batch, noise,
           X_fake_and_real, y1, y2, d_args, g_args, epoch_batches, trace,
           files >>

NoIterator == [input |-> <<>>, buf |-> {}, ended |-> TRUE]

NoArgs == [x |-> <<>>, y |-> <<>>]

Call(op) == [op |-> op, epoch |-> epoch + 1, batch |-> Len(epoch_batches),
             trainable |-> trainable]

(* ------------------------------------------------------------------ *)
(* Initial state: the script is about to build the networks; the        *)
(* arguments of the later train_dcgan call are drawn from small sets     *)
(* ------------------------------------------------------------------ *)
Init ==
  /\ pc = "build_generator"
  /\ generator = <<>>
  /\ discriminator = <<>>
  /\ trainable = TRUE
  /\ compiled = {}
  /\ n_samples \in 0..MaxSamples
  /\ batch_size \in 1..MaxBatchSize
  /\ epochs \in 0..MaxEpochs
  /\ epoch = -1
  /\ iter = NoIterator
  /\ prefetched = <<>>
  /\ X_batch = <<>>
  /\ noise = <<>>
  /\ X_fake_and_real = <<>>
  /\ y1 = <<>>
  /\ y2 = <<>>
  /\ d_args = NoArgs
  /\ g_args = NoArgs
  /\ epoch_batches = <<>>
  /\ trace = <<>>
  /\ files = {}

(* ------------------------------------------------------------------ *)
(* Script: construction and compilation                                 *)
(* ------------------------------------------------------------------ *)
\* main.py 77-84
BuildGenerator ==
  /\ pc = "build_generator"
  /\ generator' = GeneratorLayers
  /\ pc' = "build_discriminator"
  /\ UNCHANGED << discriminator, trainable, compiled, n_samples, batch_size,
                  epochs, epoch, iter, prefetched, X_batch, noise,
                  X_fake_and_real, y1, y2, d_args, g_args, epoch_batches,
                  trace, files >>

\* main.py 101-110; a new model is trainable
BuildDiscriminator ==
  /\ pc = "build_discriminator"
  /\ discriminator' = DiscriminatorLayers
  /\ trainable' = TRUE
  /\ pc' = "compile"
  /\ UNCHANGED << generator, compiled, n_samples, batch_size, epochs, epoch,
                  iter, prefetched, X_batch, noise, X_fake_and_real, y1, y2,
                  d_args, g_args, epoch_batches, trace, files >>

\* main.py 125-130
Compile ==
  /\ pc = "compile"
  /\ compiled' = {"discriminator", "gan"}
  /\ trainable' = FALSE
  /\ pc' = "call"
  /\ UNCHANGED << generator, discriminator, n_samples, batch_size, epochs,
                  epoch, iter, prefetched, X_batch, noise, X_fake_and_real,
                  y1, y2, d_args, g_args, epoch_batches, trace, files >>

\* main.py 196 / 144-145: enter train_dcgan
CallTrain ==
  /\ pc = "call"
  /\ epoch' = -1
  /\ pc' = "for_epoch"
  /\ UNCHANGED << generator, discriminator, trainable, compiled, n_samples,
                  batch_size, epochs, iter, prefetched, X_batch, noise,
                  X_fake_and_real, y1, y2, d_args, g_args, epoch_batches,
                  trace, files >>

(* ------------------------------------------------------------------ *)
(* train_dcgan                                                          *)
(* ------------------------------------------------------------------ *)
\* main.py 146-148: head of the epoch loop; entering the body starts a new
\* iteration over the dataset
ForEpoch ==
  /\ pc = "for_epoch"
  /\ IF epoch + 1 < epochs
       THEN /\ epoch' = epoch + 1
            /\ iter' = NewIterator(n_samples)
            /\ prefetched' = <<>>
            /\ epoch_batches' = <<>>
            /\ pc' = "for_batch"
       ELSE /\ pc' = "final"
            /\ UNCHANGED << epoch, iter, prefetched, epoch_batches >>
  /\ UNCHANGED << generator, discriminator, trainable, compiled, n_samples,
                  batch_size, epochs, X_batch, noise, X_fake_and_real, y1, y2,
                  d_args, g_args, trace, files >>

\* main.py 193: prefetch(1) pulls the next batch in the background while
\* its one-element buffer is empty
Prefetch ==
  /\ ~iter.ended
  /\ prefetched = <<>>
  /\ \E r \in BatchNext(iter, batch_size) :
       /\ iter' = r[2]
       /\ prefetched' = IF r[2].ended THEN <<>> ELSE <<r[1]>>
  /\ UNCHANGED << pc, generator, discriminator, trainable, compiled,
                  n_samples, batch_size, epochs, epoch, X_batch, noise,
                  X_fake_and_real, y1, y2, d_args, g_args, epoch_batches,
                  trace, files >>

\* main.py 148: head of the batch loop; takes the prefetched batch, or
\* leaves the loop at the end of the stream
ForBatch ==
  /\ pc = "for_batch"
  /\ \/ /\ prefetched # <<>>
        /\ X_batch' = RealImages(prefetched[1])
        /\ epoch_batches' = Append(epoch_batches, prefetched[1])
        /\ prefetched' = <<>>
        /\ pc' = "body"
        /\ UNCHANGED iter
     \/ /\ prefetched = <<>>
        /\ iter.ended
        /\ pc' = "render"
        /\ UNCHANGED << X_batch, epoch_batches, prefetched, iter >>
  /\ UNCHANGED << generator, discriminator, trainable, compiled, n_samples,
                  batch_size, epochs, epoch, noise, X_fake_and_real, y1, y2,
                  d_args, g_args, trace, files >>

\* main.py 149-152
Prepare ==
  /\ pc = "body"
  /\ \E z \in [1..batch_size -> 1..MaxNoise] :
       /\ noise' = z
       /\ X_fake_and_real' = ConcatFakeReal(Generate(z), X_batch)
  /\ y1' = LabelsY1(batch_size)
  /\ pc' = "set_true"
  /\ UNCHANGED << generator, discriminator, trainable, compiled, n_samples,
                  batch_size, epochs, epoch, iter, prefetched, X_batch, y2,
                  d_args, g_args, epoch_batches, trace, files >>

\* main.py 153
SetTrainableTrue ==
  /\ pc = "set_true"
  /\ trainable' = TRUE
  /\ pc' = "d_train"
  /\ UNCHANGED << generator, discriminator, compiled, n_samples, batch_size,
                  epochs, epoch, iter, prefetched, X_batch, noise,
                  X_fake_and_real, y1, y2, d_args, g_args, epoch_batches,
                  trace, files >>

\* main.py 154
DiscTrain ==
  /\ pc = "d_train"
  /\ d_args' = [x |-> X_fake_and_real, y |-> y1]
  /\ trace' = Append(trace, Call("D"))
  /\ pc' = "set_false"
  /\ UNCHANGED << generator, discriminator, trainable, compiled, n_samples,
                  batch_size, epochs, epoch, iter, prefetched, X_batch, noise,
                  X_fake_and_real, y1, y2, g_args, epoch_batches, files >>

\* the flag is left as it is before the generator step
SetTrainableFalse_flag_kept ==
  /\ pc = "set_false"
  /\ y2' = LabelsY2(batch_size)
  /\ pc' = "g_train"
  /\ UNCHANGED << generator, discriminator, trainable, compiled, n_samples,
                  batch_size, epochs, epoch, iter, prefetched, X_batch, noise,
                  X_fake_and_real, y1, d_args, g_args, epoch_batches, trace,
                  files >>

\* main.py 155-156
SetTrainableFalse ==
  /\ pc = "set_false"
  /\ y2' = LabelsY2(batch_size)
  /\ trainable' = FALSE
  /\ pc' = "g_train"
  /\ UNCHANGED << generator, discriminator, compiled, n_samples, batch_size,
                  epochs, epoch, iter, prefetched, X_batch, noise,
                  X_fake_and_real, y1, d_args, g_args, epoch_batches, trace,
                  files >>

\* the generator step is left out
GanTrain_skipped ==
  /\ pc = "g_train"
  /\ pc' = "for_batch"
  /\ UNCHANGED << generator, discriminator, trainable, compiled, n_samples,
                  batch_size, epochs, epoch, iter, prefetched, X_batch, noise,
                  X_fake_and_real, y1, y2, d_args, g_args, epoch_batches,
                  trace, files >>

\* main.py 157
GanTrain ==
  /\ pc = "g_train"
  /\ g_args' = [x |-> noise, y |-> y2]
  /\ trace' = Append(trace, Call("G"))
  /\ pc' = "for_batch"
  /\ UNCHANGED << generator, discriminator, trainable, compiled, n_samples,
                  batch_size, epochs, epoch, iter, prefetched, X_batch, noise,
                  X_fake_and_real, y1, y2, d_args, epoch_batches, files >>

\* main.py 168-177: generate_and_save_images(model, epoch, test_input)
generate_and_save_images(e) ==
  /\ trace' = Append(trace, [op |-> "R", epoch |-> e, batch |-> 0,
                             trainable |-> trainable])
  /\ files' = files \cup {FileName(e)}

\* main.py 158-159: render at the end of the epoch
Render ==
  /\ pc = "render"
  /\ generate_and_save_images(RenderEpoch(epoch))
  /\ pc' = "for_epoch"
  /\ UNCHANGED << generator, discriminator, trainable, compiled, n_samples,
                  batch_size, epochs, epoch, iter, prefetched, X_batch, noise,
                  X_fake_and_real, y1, y2, d_args, g_args, epoch_batches >>

\* main.py 160-161: render after the loop; with no epoch run the name epoch
\* is unbound and the call raises
FinalRender ==
  /\ pc = "final"
  /\ IF epoch = -1
       THEN /\ pc' = "error"
            /\ UNCHANGED << trace, files >>
       ELSE /\ generate_and_save_images(RenderEpoch(epoch))
            /\ pc' = "done"
  /\ UNCHANGED << generator, discriminator, trainable, compiled, n_samples,
                  batch_size, epochs, epoch, iter, prefetched, X_batch, noise,
                  X_fake_and_real, y1, y2, d_args, g_args, epoch_batches >>

Next ==
  \/ BuildGenerator
  \/ BuildDiscriminator
  \/ Compile
  \/ CallTrain
  \/ ForEpoch
  \/ Prefetch
  \/ ForBatch
  \/ Prepare
  \/ SetTrainableTrue
  \/ DiscTrain
  \/ SetTrainableFalse
  \/ GanTrain
  \/ Render
  \/ FinalRender

Spec == Init /\ [][Next]_vars

(* ------------------------------------------------------------------ *)
(* Properties                                                           *)
(* ------------------------------------------------------------------ *)
IsTrain(c) == c.op \in {"D", "G"}
IsRender(c) == c.op = "R"

TrainSteps == SelectSeq(trace, IsTrain)
Renders == SelectSeq(trace, IsRender)

\* number of batches an epoch over the training set delivers
BatchesPerEpoch == n_samples \div batch_size

\* samples delivered to the loop body in the current epoch, with position
Delivered == { <<b, i>> : b \in 1..Len(epoch_batches), i \in 1..batch_size }

\* C1: the training steps strictly alternate, discriminator first: the
\* i-th step is a discriminator step iff i is odd, each generator step
\* belongs to the batch of the discriminator step right before it, the
\* steps of the batches come in the order the batches were yielded (one
\* pair per batch), and when train_dcgan returns the two kinds of step are
\* equal in number, one pair for every batch of every epoch.
C1_StepsAlternate ==
  LET s == TrainSteps
  IN /\ \A i \in 1..Len(s) :
          /\ s[i].op = (IF i % 2 = 1 THEN "D" ELSE "G")
          /\ i % 2 = 0 => /\ s[i].epoch = s[i-1].epoch
                          /\ s[i].batch = s[i-1].batch
          /\ i % 2 = 1 /\ i > 1 =>
               \/ s[i].epoch = s[i-2].epoch /\ s[i].batch = s[i-2].batch + 1
               \/ s[i].epoch > s[i-2].epoch /\ s[i].batch = 1
     /\ pc \in {"for_batch", "render"} =>
          Cardinality({i \in 1..Len(s) : s[i].epoch = epoch + 1})
            = 2 * Len(epoch_batches)
     /\ pc = "done" =>
          /\ Cardinality({i \in 1..Len(s) : s[i].op = "D"})
               = Cardinality({i \in 1..Len(s) : s[i].op = "G"})
          /\ Len(s) = 2 * epochs * BatchesPerEpoch

C1_Witness ==
  /\ pc = "done"
  /\ epochs = 2
  /\ Len(TrainSteps) >= 8

\* C2: the discriminator step gets 2*batch_size samples, generated images
\* first (label 0) and the real images of the current batch second
\* (label 1); the generator step gets the noise that produced those
\* generated images, with batch_size labels all 1.
C2_AdversarialLabels ==
  /\ d_args # NoArgs =>
       /\ Len(d_args.x) = 2 * batch_size
       /\ Len(d_args.y) = 2 * batch_size
       /\ \A i \in 1..batch_size :
            /\ d_args.x[i].src = "fake" /\ d_args.y[i] = 0
            /\ d_args.x[batch_size + i].src = "real"
            /\ d_args.y[batch_size + i] = 1
  /\ g_args # NoArgs =>
       /\ Len(g_args.x) = batch_size
       /\ Len(g_args.y) = batch_size
       /\ \A i \in 1..batch_size : g_args.y[i] = 1
  /\ pc \in {"set_false", "g_train"} =>
       \A i \in 1..batch_size :
         /\ d_args.x[i] = [src |-> "fake", id |-> noise[i]]
         /\ d_args.x[batch_size + i]
              = [src |-> "real", id |-> epoch_batches[Len(epoch_batches)][i]]
  /\ g_args # NoArgs /\ pc \in {"for_batch", "render"} =>
       \A i \in 1..batch_size : d_args.x[i] = [src |-> "fake", id |-> g_args.x[i]]

C2_Witness ==
  /\ pc = "for_batch"
  /\ batch_size = 2
  /\ g_args # NoArgs
  /\ g_args.x[1] # g_args.x[2]
  /\ Len(epoch_batches) = 2

\* C3: renders happen once per epoch, after all training steps of that
\* epoch and before any of the next, with the 1-based epoch number; over
\* the run the numbers are 1, 2, ..., E and E once more, so E+1 renders
\* write exactly E distinct files.
C3_RenderPerEpoch ==
  /\ \A i \in 1..Len(Renders) :
       Renders[i].epoch = (IF i <= epochs THEN i ELSE epochs)
  /\ \A i \in 1..Len(trace) : IsRender(trace[i]) =>
       /\ \A j \in 1..Len(trace) : IsTrain(trace[j]) =>
            (j < i <=> trace[j].epoch <= trace[i].epoch)
       /\ Cardinality({j \in 1..i : IsTrain(trace[j])
                                     /\ trace[j].epoch = trace[i].epoch})
            = 2 * BatchesPerEpoch
  /\ files = {FileName(Renders[i].epoch) : i \in 1..Len(Renders)}
  /\ pc = "done" =>
       /\ Len(Renders) = epochs + 1
       /\ Cardinality(files) = epochs
       /\ Renders[Len(Renders)] = Renders[Len(Renders) - 1]

C3_Witness ==
  /\ pc = "done"
  /\ epochs = 2
  /\ Len(Renders) = 3
  /\ Len(TrainSteps) >= 4

\* C4: every batch an epoch delivers has exactly batch_size samples, no
\* sample is delivered twice in an epoch, an epoch delivers
\* floor(N / batch_size) batches and drops N mod batch_size samples, and
\* the label vector of the discriminator step is as long as its input.
C4_FullBatchesOnly ==
  /\ \A b \in 1..Len(epoch_batches) : Len(epoch_batches[b]) = batch_size
  /\ \A p, q \in Delivered :
       epoch_batches[p[1]][p[2]] = epoch_batches[q[1]][q[2]] => p = q
  /\ \A p \in Delivered : epoch_batches[p[1]][p[2]] \in 1..n_samples
  /\ pc = "render" =>
       /\ Len(epoch_batches) = BatchesPerEpoch
       /\ Cardinality((1..n_samples)
                        \ {epoch_batches[p[1]][p[2]] : p \in Delivered})
            = n_samples % batch_size
  /\ pc \in {"set_true", "d_train"} =>
       /\ Len(y1) = 2 * batch_size
       /\ Len(y1) = Len(X_fake_and_real)
  /\ Len(d_args.y) = Len(d_args.x)

C4_Witness ==
  /\ pc = "render"
  /\ n_samples % batch_size # 0
  /\ Len(epoch_batches) >= 1
  /\ epoch_batches[1][1] # 1

\* C5: every generator layer that has an activation uses ReLU, except the
\* output layer, which uses Tanh.
C5_GeneratorActivations ==
  \A i \in 1..Len(generator) :
    generator[i].activation # "none" =>
      generator[i].activation = (IF i = Len(generator) THEN "tanh" ELSE "relu")

\* C6: once both networks are built, the generator and the discriminator
\* each contain at least one BatchNormalization layer.
C6_BatchNormInBoth ==
  pc \notin {"build_generator", "build_discriminator"} =>
    /\ \E i \in 1..Len(generator) : generator[i].kind = "BatchNormalization"
    /\ \E i \in 1..Len(discriminator) :
         discriminator[i].kind = "BatchNormalization"

\* C7: discriminator.trainable is True at every discriminator step, False
\* at every generator step and at every render, and False when train_dcgan
\* returns.
C7_TrainableLockStep ==
  /\ \A i \in 1..Len(trace) :
       trace[i].trainable = (trace[i].op = "D")
  /\ pc = "d_train" => trainable
  /\ pc \in {"g_train", "render", "final", "done", "for_epoch"} => ~trainable

C7_Witness ==
  /\ pc = "done"
  /\ \E i \in 1..Len(trace) : trace[i].op = "D"
  /\ \E i \in 1..Len(trace) : trace[i].op = "G"
  /\ ~trainable

====
